---- MODULE Spec2Model ----
(***************************************************************************)
(* A model of seismograph's suite orchestration core (seismograph/suite.py)*)
(* One Suite object, its SuiteContext, the programs it can be mounted to,  *)
(* the process-wide extension registry and one Result sink.  Every public  *)
(* operation of Suite is one action; what user code does inside a call     *)
(* (layer hooks, setup/teardown callbacks, the case group) is an input of  *)
(* the action: whether it raises, where, and with which kind of failure.   *)
(***************************************************************************)
EXTENDS Naturals, Sequences, FiniteSets, TLC

\* ------------------------------------------------------------------ bounds
MaxCases == 2
MaxRequire == 2
MaxRules == 2
MaxErrors == 1
MaxUnits == 4
MaxFailAt == 2

\* ------------------------------------------------------------- the universe
None == "None"

Programs == {"p1", "p2"}
SuiteName == "suite"
RuleSuiteNames == {"suite", "other"}

CaseClasses == {"CaseA"}
CaseFunctions == {"func"}
CaseNames == CaseClasses \cup CaseFunctions

ExtNames == {"ext1", "ext2", "extX"}
\* The process-wide extension registry: "extX" is registered nowhere.
Registry == ("ext1" :> "instance1") @@ ("ext2" :> "instance2")

\* The test methods each case class declares, in declaration order; a class
\* made from a function has the one default test.
TestsOf(cls) == IF cls \in CaseClasses THEN <<"test_one", "test_two">> ELSE <<"test">>

Kinds == {"allow", "other"}

Error(name, kind) == [name |-> name, kind |-> kind]
NoError == Error(None, None)

\* The framework's own failures.  None of them is one of the kinds that
\* ALLOW_RAISED_EXCEPTIONS lists.
AlreadyMounted == Error("AlreadyMounted", "other")
AlreadyBuilt == Error("AlreadyBuilt", "other")
MissingArgument == Error("MissingArgument", "other")
ArgumentConflict == Error("ArgumentConflict", "other")
InvalidArgument == Error("InvalidArgument", "other")
ExtensionNotRequired == Error("ExtensionNotRequired", "other")
VersionUnsupported == Error("VersionUnsupported", "other")
NotMounted == Error("NotMounted", "other")
NotBuilt == Error("NotBuilt", "other")
NotFound == Error("NotFound", "other")

\* ------------------------------------------------------------------ layers
DEFAULT_LAYERS == <<"LD">>
\* The suite is a MySuite, a subclass of Suite; the registry of type-matched
\* layers has an entry for a class the suite is no instance of, one for the
\* base class and one for the suite's own class.
MATCH_SUITE_TO_LAYER ==
    << <<"OtherSuite", "LO">>, <<"Suite", "LS">>, <<"MySuite", "LM">> >>
CtorLayers == <<"LC">>
ClassLayers == <<"LK">>
SuiteTypes == {"MySuite", "Suite"}
Layers == {"LD", "LC", "LK", "LO", "LS", "LM"}

\* What happens inside a call, as the call's log records it.
Event(ev, who) == [ev |-> ev, who |-> who, kind |-> None]
\* The target `who` raised a failure of kind `kind`.
Fail(who, kind) == [ev |-> "fail", who |-> who, kind |-> kind]

RECURSIVE Filter(_, _)
Filter(seq, keep) ==
    IF seq = <<>> THEN <<>>
    ELSE (IF Head(seq) \in keep THEN <<Head(seq)>> ELSE <<>>)
         \o Filter(Tail(seq), keep)

RECURSIVE Count(_, _)
Count(seq, x) ==
    IF seq = <<>> THEN 0
    ELSE (IF Head(seq) = x THEN 1 ELSE 0) + Count(Tail(seq), x)

Range(seq) == {seq[i] : i \in 1..Len(seq)}

Reverse(seq) == [i \in 1..Len(seq) |-> seq[Len(seq) + 1 - i]]

\* ------------------------------------------------------ the mock server
\* ext.mock_server.SERVER_TYPES: the registry of server types.
SERVER_TYPES == {"simple", "json_api"}

DEFAULT_PORT == 5000
DEFAULT_HOST == "127.0.0.1"

\* The calls made to a server constructor: none so far.
NoServer == <<>>

\* The failures of the launcher.  ValueError('Incorrect server type') is the
\* InvalidArgument failure of the command line.
IncorrectServerType == Error("Incorrect server type", "other")
KeyError == Error("KeyError", "other")
OSError == Error("OSError", "other")
ImportError == Error("ImportError", "other")

\* ------------------------------------------------------------------- state
VARIABLES
    program_suites,      \* Program.suites, per program
    program_config,      \* Program.config, per program: a configuration object
    config_flags,        \* GEVENT / THREADING / MULTIPROCESSING of each configuration
    IS_PYTHON_3,         \* pyv.IS_PYTHON_3 of the running interpreter
    case_group_class,    \* Suite.__case_group_class__
    enabled,             \* layer.enabled, per layer
    mount_data,          \* Suite.__mount_data__: None or the snapshot configuration
    is_run,              \* Suite.__is_run
    is_build,            \* Suite.__is_build
    case_classes,        \* Suite.__case_classes
    case_instances,      \* Suite.__case_instances
    require,             \* SuiteContext.__require
    extensions,          \* SuiteContext.__extensions
    build_rules,         \* SuiteContext.__build_rules
    errors,              \* what result_proxy.add_error has recorded
    call,                \* the last call made on the suite
    raised,              \* the failure that call raised to its caller, or NoError
    ret,                 \* the value that call returned
    events,              \* what happened inside that call, in order
    server,              \* mock server: what the server constructor was called with
    serving              \* mock server: serve_forever has been invoked

vars == <<program_suites, program_config, config_flags, IS_PYTHON_3,
          case_group_class, enabled, mount_data, is_run, is_build,
          case_classes, case_instances, require, extensions, build_rules,
          errors, call, raised, ret, events, server, serving>>

env == <<program_config, config_flags, IS_PYTHON_3, case_group_class, enabled>>

\* The state of the mock-server launcher's process.
launcher == <<server, serving>>

\* ------------------------------------------------- collaborators of the suite
\* What user code does inside one broadcast or callback chain: the target at
\* position `at` raises a failure of kind `kind` (at = 0: nothing raises).
NoFault == [at |-> 0, kind |-> None]
Faults == {NoFault} \cup [at : 1..MaxFailAt, kind : Kinds]

\* utils.common.call_to_chain: call the targets in order; the first failure
\* propagates at once and the remaining targets are not called.
CallToChain(targets, hook, fault) ==
    LET n == Len(targets)
        fails == fault.at \in 1..n
        k == IF fails THEN fault.at ELSE n
    IN  [events |-> [i \in 1..k |-> Event(hook, targets[i])]
                    \o (IF fails THEN <<Fail(hook, fault.kind)>> ELSE <<>>),
         err |-> IF fails THEN Error(hook, fault.kind) ELSE NoError]

\* SuiteContext.layers: the enabled default layers, then the enabled layers
\* of this context (constructor-supplied, then class-level).
ContextLayers ==
    Filter(DEFAULT_LAYERS, {l \in Layers : enabled[l]})
    \o Filter(CtorLayers \o ClassLayers, {l \in Layers : enabled[l]})

RECURSIVE MatchLayers(_)
MatchLayers(items) ==
    IF items = <<>> THEN <<>>
    ELSE (IF Head(items)[1] \in SuiteTypes /\ enabled[Head(items)[2]]
          THEN <<Head(items)[2]>> ELSE <<>>)
         \o MatchLayers(Tail(items))

with_match_layers == ContextLayers \o MatchLayers(MATCH_SUITE_TO_LAYER)

\* One layer broadcast: call_to_chain(with_match_layers(...), hook, ...).
Broadcast(hook, fault) ==
    LET c == CallToChain(with_match_layers, hook, fault)
    IN  [events |-> <<Event("broadcast", hook)>> \o c.events, err |-> c.err]

\* runnable.stopped_on: the diagnostic marker naming the phase.
stopped_on(phase) == <<Event("stopped_on", phase)>>

\* Suite.__is_mount__ (what runnable.is_mount asks)
is_mount == mount_data # None

\* runnable.mount_method: the failure a mount-guarded operation is rejected
\* with, before its body runs, or NoError.
mount_method == IF ~is_mount THEN NotMounted ELSE NoError

\* runnable.build_method: the same for a build-guarded operation.
build_method == IF ~is_build THEN NotBuilt ELSE NoError

\* ------------------------------------------------------------- mount_to
\* mount_to without its check of runnable.is_mount.
mount_to_unchecked(program, fault) ==
    LET b == Broadcast("on_mount", fault)
    IN  /\ call' = [op |-> "mount_to", args |-> <<program>>]
        /\ ret' = None
        /\ program_suites' =
               [program_suites EXCEPT ![program] = Append(@, SuiteName)]
        /\ mount_data' = program_config[program]
        /\ events' = b.events
        /\ raised' = b.err
        /\ UNCHANGED <<is_run, is_build, case_classes, case_instances, require,
                       extensions, build_rules, errors>>
        /\ UNCHANGED <<env, launcher>>

mount_to(program, fault) ==
    /\ call' = [op |-> "mount_to", args |-> <<program>>]
    /\ ret' = None
    /\ IF is_mount
       THEN /\ raised' = AlreadyMounted
            /\ events' = <<>>
            /\ UNCHANGED <<program_suites, mount_data>>
       ELSE LET b == Broadcast("on_mount", fault)
            IN  /\ program_suites' =
                       [program_suites EXCEPT ![program] = Append(@, SuiteName)]
                /\ mount_data' = program_config[program]
                /\ events' = b.events
                /\ raised' = b.err
    /\ UNCHANGED <<is_run, is_build, case_classes, case_instances, require,
                   extensions, build_rules, errors>>
    /\ UNCHANGED <<env, launcher>>

\* Suite.config: mount-guarded accessor.
config ==
    /\ call' = [op |-> "config", args |-> <<>>]
    /\ events' = <<>>
    /\ IF mount_method # NoError
       THEN raised' = mount_method /\ ret' = None
       ELSE raised' = NoError /\ ret' = mount_data
    /\ UNCHANGED <<program_suites, mount_data, is_run, is_build, case_classes,
                   case_instances, require, extensions, build_rules, errors>>
    /\ UNCHANGED <<env, launcher>>

\* ------------------------------------------------------------- register
\* The keyword options of register: given or not, and the names under require.
NoKwargs == [given |-> FALSE, require |-> <<>>]
Kwargs == {NoKwargs} \cup [given : {TRUE}, require : {<<>>, <<"ext1">>, <<"ext2">>}]

\* Case.mount_to(suite, require), on the class given or on the class that
\* case.make_case_class_from_function makes of a function: a case class
\* mounts to one suite only, and the names it requires join the suite's
\* requirement list.
CaseMount(_class, names) ==
    IF _class \in CaseClasses /\ _class \in Range(case_classes)
    THEN [err |-> AlreadyMounted, require |-> require]
    ELSE [err |-> NoError, require |-> require \o names]

\* The inner function `wrapped` of register.
wrapped(_class, kw) ==
    LET m == CaseMount(_class, kw.require)
    IN  IF m.err # NoError
        THEN /\ raised' = m.err
             /\ ret' = None
             /\ UNCHANGED <<case_classes, require>>
        ELSE /\ require' = m.require
             /\ case_classes' = Append(case_classes, _class)
             /\ ret' = _class
             /\ raised' = NoError

\* register with the conflict of a case and keyword options not rejected: the
\* case is registered and the options are dropped.
register_lenient(cls, kw, decorated) ==
    /\ call' = [op |-> "register", args |-> <<cls, kw.given, decorated>>]
    /\ events' = <<>>
    /\ IF cls = None /\ ~kw.given
       THEN /\ raised' = MissingArgument
            /\ ret' = None
            /\ UNCHANGED <<case_classes, require>>
       ELSE IF cls # None
       THEN wrapped(cls, NoKwargs)
       ELSE IF decorated = None
       THEN /\ raised' = NoError
            /\ ret' = "wrapper"
            /\ UNCHANGED <<case_classes, require>>
       ELSE wrapped(decorated, kw)
    /\ UNCHANGED <<program_suites, mount_data, is_run, is_build, case_instances,
                   extensions, build_rules, errors>>
    /\ UNCHANGED <<env, launcher>>

\* register(cls, **kwargs); with keyword options only it returns a decorator,
\* and `decorated` is the case that decorator is then applied to (None: the
\* decorator is not applied).
register(cls, kw, decorated) ==
    /\ call' = [op |-> "register", args |-> <<cls, kw.given, decorated>>]
    /\ events' = <<>>
    /\ IF cls = None /\ ~kw.given
       THEN /\ raised' = MissingArgument
            /\ ret' = None
            /\ UNCHANGED <<case_classes, require>>
       ELSE IF cls # None /\ kw.given
       THEN /\ raised' = ArgumentConflict
            /\ ret' = None
            /\ UNCHANGED <<case_classes, require>>
       ELSE IF cls # None
       THEN wrapped(cls, NoKwargs)
       ELSE IF decorated = None
       THEN /\ raised' = NoError
            /\ ret' = "wrapper"
            /\ UNCHANGED <<case_classes, require>>
       ELSE wrapped(decorated, kw)
    /\ UNCHANGED <<program_suites, mount_data, is_run, is_build, case_instances,
                   extensions, build_rules, errors>>
    /\ UNCHANGED <<env, launcher>>

\* ----------------------------------------------------- assign_build_rule
BuildRule(suite_name, case_name, test_name) ==
    [suite_name |-> suite_name, case_name |-> case_name, test_name |-> test_name]

\* Python truthiness of a string or None.
Truthy(x) == x \notin {None, ""}

\* is_of comparing the rule's case name, not its suite name.
is_of_case(rule) == rule.case_name = SuiteName

\* BuildRule.is_of
is_of(rule) == rule.suite_name = SuiteName

assign_build_rule(rule) ==
    /\ call' = [op |-> "assign_build_rule", args |-> <<rule>>]
    /\ events' = <<>>
    /\ ret' = None
    /\ IF ~is_of(rule)
       THEN raised' = InvalidArgument /\ UNCHANGED build_rules
       ELSE /\ raised' = NoError
            /\ build_rules' = IF Truthy(rule.case_name)
                              THEN Append(build_rules, rule)
                              ELSE build_rules
    /\ UNCHANGED <<program_suites, mount_data, is_run, is_build, case_classes,
                   case_instances, require, extensions, errors>>
    /\ UNCHANGED <<env, launcher>>

\* The rules and the build arguments the model draws from: a test name is
\* given only together with a case class that declares it.
Rules ==
    {r \in [suite_name : RuleSuiteNames, case_name : CaseNames \cup {None, ""},
            test_name : {None, "test_one"}] :
        r.test_name # None => r.case_name \in CaseClasses}

BuildArguments ==
    {a \in (CaseNames \cup {None}) \X {None, "test_one"} \X {None, "shuffle"} :
        a[2] # None => a[1] \in CaseClasses \cup {None}}

\* ---------------------------------------------------------------- build
\* SuiteContext.install_extensions, over the names still to visit; the
\* registry's get fails with NotFound for an unregistered name, and what was
\* resolved before stays in the mapping.
RECURSIVE install_extensions(_, _)
install_extensions(names, exts) ==
    IF names = <<>> THEN [exts |-> exts, events |-> <<>>, err |-> NoError]
    ELSE IF Head(names) \in DOMAIN exts
    THEN install_extensions(Tail(names), exts)
    ELSE IF Head(names) \notin DOMAIN Registry
    THEN [exts |-> exts, events |-> <<Event("get", Head(names))>>, err |-> NotFound]
    ELSE LET rest == install_extensions(Tail(names),
                                        exts @@ (Head(names) :> Registry[Head(names)]))
         IN  [exts |-> rest.exts,
              events |-> <<Event("get", Head(names))>> \o rest.events,
              err |-> rest.err]

\* loader.load_tests_from_case: one unit per test method, or the named one.
load_tests_from_case(cls, method_name) ==
    IF Truthy(method_name)
    THEN << <<cls, method_name>> >>
    ELSE [i \in 1..Len(TestsOf(cls)) |-> <<cls, TestsOf(cls)[i]>>]

RECURSIVE LoadAll(_)
LoadAll(classes) ==
    IF classes = <<>> THEN <<>>
    ELSE load_tests_from_case(Head(classes), None) \o LoadAll(Tail(classes))

\* Suite.__build__: the built units after the call and the failure, if any
\* (loader.load_case_from_suite fails with NotFound for an unregistered name).
build_units(case_name, test_name, instances) ==
    IF Truthy(case_name)
    THEN IF case_name \notin Range(case_classes)
         THEN [inst |-> instances, err |-> NotFound]
         ELSE [inst |-> instances \o load_tests_from_case(case_name, test_name),
               err |-> NoError]
    ELSE [inst |-> instances \o LoadAll(case_classes), err |-> NoError]

\* The loop of build over the build rules; it ends at the first failure.
RECURSIVE BuildByRules(_, _)
BuildByRules(rules, instances) ==
    IF rules = <<>> THEN [inst |-> instances, err |-> NoError]
    ELSE LET one == build_units(Head(rules).case_name, Head(rules).test_name, instances)
         IN  IF one.err # NoError THEN one ELSE BuildByRules(Tail(rules), one.inst)

\* The body of build, past its guards.
BuildBody(case_name, test_name, shuffle) ==
    LET inst == install_extensions(require, extensions)
        built == IF build_rules # <<>> /\ ~Truthy(case_name)
                 THEN BuildByRules(build_rules, case_instances)
                 ELSE build_units(case_name, test_name, case_instances)
    IN  /\ extensions' = inst.exts
        /\ events' = inst.events
        /\ IF inst.err # NoError
           THEN raised' = inst.err /\ UNCHANGED <<case_instances, is_build>>
           ELSE IF built.err # NoError
           THEN /\ raised' = built.err
                /\ case_instances' = built.inst
                /\ UNCHANGED is_build
           ELSE /\ raised' = NoError
                /\ case_instances' = IF shuffle # None THEN Reverse(built.inst)
                                     ELSE built.inst
                /\ is_build' = TRUE

\* build without its check of the "is built" flag.
build_unchecked(case_name, test_name, shuffle) ==
    /\ call' = [op |-> "build", args |-> <<case_name, test_name, shuffle>>]
    /\ ret' = None
    /\ IF mount_method # NoError
       THEN /\ raised' = mount_method
            /\ events' = <<>>
            /\ UNCHANGED <<extensions, case_instances, is_build>>
       ELSE BuildBody(case_name, test_name, shuffle)
    /\ UNCHANGED <<program_suites, mount_data, is_run, case_classes, require,
                   build_rules, errors>>
    /\ UNCHANGED <<env, launcher>>

\* build(case_name, test_name, shuffle), mount-guarded.
build(case_name, test_name, shuffle) ==
    /\ call' = [op |-> "build", args |-> <<case_name, test_name, shuffle>>]
    /\ ret' = None
    /\ IF mount_method # NoError
       THEN /\ raised' = mount_method
            /\ events' = <<>>
            /\ UNCHANGED <<extensions, case_instances, is_build>>
       ELSE IF is_build
       THEN /\ raised' = AlreadyBuilt
            /\ events' = <<>>
            /\ UNCHANGED <<extensions, case_instances, is_build>>
       ELSE BuildBody(case_name, test_name, shuffle)
    /\ UNCHANGED <<program_suites, mount_data, is_run, case_classes, require,
                   build_rules, errors>>
    /\ UNCHANGED <<env, launcher>>

\* ------------------------------------------------------------------ ext
\* ext(name), build-guarded.
ext(name) ==
    /\ call' = [op |-> "ext", args |-> <<name>>]
    /\ events' = <<>>
    /\ IF build_method # NoError
       THEN raised' = build_method /\ ret' = None
       ELSE IF name \notin Range(require)
       THEN raised' = ExtensionNotRequired /\ ret' = None
       ELSE /\ raised' = NoError
            /\ ret' = IF name \in DOMAIN extensions THEN extensions[name] ELSE None
    /\ UNCHANGED <<program_suites, mount_data, is_run, is_build, case_classes,
                   case_instances, require, extensions, build_rules, errors>>
    /\ UNCHANGED <<env, launcher>>

\* ------------------------------------------------------------------ run
\* What user code does inside one run: at most one failure before the scoped
\* context is left (body), at most one while it is left (exit), and possibly
\* one in the on_error hooks; `at` is the position of the failing target in
\* its chain.
NoPoint == [point |-> None, kind |-> None]
BodyPoints == {"on_run", "setup", "on_setup", "group"}
ExitPoints == {"teardown", "on_teardown"}
Plans ==
    [body : {NoPoint} \cup [point : BodyPoints, kind : Kinds],
     exit : {NoPoint} \cup [point : ExitPoints, kind : Kinds],
     on_error : {None} \cup Kinds,
     at : 1..MaxFailAt]

FaultAt(plan, point) ==
    IF plan.body.point = point THEN [at |-> plan.at, kind |-> plan.body.kind]
    ELSE IF plan.exit.point = point THEN [at |-> plan.at, kind |-> plan.exit.kind]
    ELSE IF point = "on_error" /\ plan.on_error # None
    THEN [at |-> plan.at, kind |-> plan.on_error]
    ELSE NoFault

\* ALLOW_RAISED_EXCEPTIONS
Allowed(err) == err.kind = "allow"

\* SuiteContext.__setup_callbacks / __teardown_callbacks, as seeded.
setup_callbacks == <<"setup">>
teardown_callbacks == <<"teardown">>

\* Suite._make_group: the group class chosen, or the failure of the
\* compatibility gate (pyv.check_gevent_supported).
check_gevent_supported == IF IS_PYTHON_3 THEN VersionUnsupported ELSE NoError

\* _make_group with the flags looked at before the class-level override.
_make_group_flags_first ==
    LET cfg == config_flags[mount_data]
    IN  IF cfg.GEVENT
        THEN [group |-> "GeventCaseGroup", err |-> check_gevent_supported]
        ELSE IF cfg.THREADING \/ cfg.MULTIPROCESSING
        THEN [group |-> "ThreadingCaseGroup", err |-> NoError]
        ELSE IF case_group_class # None
        THEN [group |-> case_group_class, err |-> NoError]
        ELSE [group |-> "DefaultCaseGroup", err |-> NoError]

_make_group ==
    LET cfg == config_flags[mount_data]
    IN  IF case_group_class # None
        THEN [group |-> case_group_class, err |-> NoError]
        ELSE IF cfg.GEVENT
        THEN [group |-> "GeventCaseGroup", err |-> check_gevent_supported]
        ELSE IF cfg.THREADING \/ cfg.MULTIPROCESSING
        THEN [group |-> "ThreadingCaseGroup", err |-> NoError]
        ELSE [group |-> "DefaultCaseGroup", err |-> NoError]

\* SuiteContext.on_run
on_run(plan) ==
    LET b == Broadcast("on_run", FaultAt(plan, "on_run"))
    IN  IF b.err # NoError
        THEN [events |-> b.events \o stopped_on("on_run"), err |-> b.err]
        ELSE b

\* SuiteContext.start_context
start_context(plan) ==
    LET a == CallToChain(setup_callbacks, "setup", FaultAt(plan, "setup"))
        b == Broadcast("on_setup", FaultAt(plan, "on_setup"))
    IN  IF a.err # NoError
        THEN [events |-> a.events \o stopped_on("start_context"), err |-> a.err]
        ELSE IF b.err # NoError
        THEN [events |-> a.events \o b.events \o stopped_on("start_context"),
              err |-> b.err]
        ELSE [events |-> a.events \o b.events, err |-> NoError]

\* SuiteContext.stop_context
stop_context(plan) ==
    LET a == CallToChain(teardown_callbacks, "teardown", FaultAt(plan, "teardown"))
        b == Broadcast("on_teardown", FaultAt(plan, "on_teardown"))
    IN  IF a.err # NoError
        THEN [events |-> a.events \o stopped_on("stop_context"), err |-> a.err]
        ELSE IF b.err # NoError
        THEN [events |-> a.events \o b.events \o stopped_on("stop_context"),
              err |-> b.err]
        ELSE [events |-> a.events \o b.events, err |-> NoError]

\* group(result_proxy): the case group drives the built units.
GroupCall(group, plan) ==
    IF plan.body.point = "group"
    THEN [events |-> <<Event("group", group), Fail("group", plan.body.kind)>>,
          err |-> Error("group", plan.body.kind)]
    ELSE [events |-> <<Event("group", group)>>, err |-> NoError]

\* runnable.ContextOfRunnableObject, the scope `self.__context(self)` opens:
\* entering it runs start_context, leaving it runs stop_context.
context_enter(plan) == start_context(plan)
context_exit(plan) == stop_context(plan)

\* The scoped group call with the scope left only when the body completes.
ScopedGroup_no_finally(group, plan) ==
    LET enter == context_enter(plan)
        body == GroupCall(group, plan)
        exit == context_exit(plan)
    IN  IF enter.err # NoError THEN enter
        ELSE IF body.err # NoError
        THEN [events |-> enter.events \o body.events, err |-> body.err]
        ELSE [events |-> enter.events \o body.events \o exit.events,
              err |-> exit.err]

\* `with self.__context(self): group(result_proxy)`: the body runs once the
\* scope is entered; an entered scope is left on every way out of the body,
\* and a failure raised while leaving replaces the one in flight.
ScopedGroup(group, plan) ==
    LET enter == context_enter(plan)
        body == GroupCall(group, plan)
        exit == context_exit(plan)
    IN  IF enter.err # NoError THEN enter
        ELSE [events |-> enter.events \o body.events \o exit.events,
              err |-> IF exit.err # NoError THEN exit.err ELSE body.err]

\* The try block of run with the scope entered whatever on_run did.
TryBlock_on_run_ignored(group, plan) ==
    LET r == on_run(plan)
        c == ScopedGroup(group, plan)
    IN  [events |-> r.events \o c.events,
         err |-> IF c.err # NoError THEN c.err ELSE r.err]

\* The try block of run.
TryBlock(group, plan) ==
    LET r == on_run(plan)
        c == ScopedGroup(group, plan)
    IN  IF r.err # NoError THEN r
        ELSE [events |-> r.events \o c.events, err |-> c.err]

\* SuiteContext.on_error
on_error(plan) ==
    LET b == Broadcast("on_error", FaultAt(plan, "on_error"))
    IN  IF b.err # NoError
        THEN [events |-> b.events \o stopped_on("on_error"), err |-> b.err]
        ELSE b

ErrorRecord(err) == [suite |-> SuiteName, error |-> err]

\* The except clauses of run with the on_error broadcast made before, and
\* instead of, the write to the result handle.
Handle_unrecorded(err, plan) ==
    IF err = NoError \/ Allowed(err)
    THEN [events |-> <<>>, added |-> <<>>, err |-> err]
    ELSE LET h == on_error(plan)
         IN  [events |-> h.events, added |-> <<>>, err |-> h.err]

\* The except clauses of run: what the handling of the try block's failure
\* writes, broadcasts and raises.
Handle(err, plan) ==
    IF err = NoError \/ Allowed(err)
    THEN [events |-> <<>>, added |-> <<>>, err |-> err]
    ELSE LET h == on_error(plan)
         IN  [events |-> <<Event("add_error", err.name)>> \o h.events,
              added |-> <<ErrorRecord(err)>>,
              err |-> h.err]

\* The body of run with the early return taken only when both conditions hold.
RunBody_and(should_stop, plan) ==
    /\ is_run' = TRUE
    /\ IF should_stop /\ case_instances = <<>>
       THEN /\ events' = <<>>
            /\ raised' = NoError
            /\ UNCHANGED errors
       ELSE LET g == _make_group
                t == TryBlock(g.group, plan)
                h == Handle(t.err, plan)
            IN  /\ events' = <<Event("make_group", g.group),
                               Event("measure_time", "start"),
                               Event("proxy", "enter")>>
                             \o t.events \o h.events
                             \o <<Event("proxy", "exit")>>
                /\ errors' = errors \o h.added
                /\ raised' = h.err

\* The body of run, past its guard.
RunBody(should_stop, plan) ==
    /\ is_run' = TRUE
    /\ IF should_stop \/ case_instances = <<>>
       THEN /\ events' = <<>>
            /\ raised' = NoError
            /\ UNCHANGED errors
       ELSE LET g == _make_group
                t == TryBlock(g.group, plan)
                h == Handle(t.err, plan)
            IN  IF g.err # NoError
                THEN /\ events' = <<Event("check_gevent_supported", "fail")>>
                     /\ raised' = g.err
                     /\ UNCHANGED errors
                ELSE /\ events' = <<Event("make_group", g.group),
                                    Event("measure_time", "start"),
                                    Event("proxy", "enter")>>
                                  \o t.events \o h.events
                                  \o <<Event("proxy", "exit")>>
                     /\ errors' = errors \o h.added
                     /\ raised' = h.err

\* run without the build guard.
run_unguarded(should_stop, plan) ==
    /\ call' = [op |-> "run", args |-> <<should_stop>>]
    /\ ret' = None
    /\ RunBody(should_stop, plan)
    /\ UNCHANGED <<program_suites, mount_data, is_build, case_classes,
                   case_instances, require, extensions, build_rules>>
    /\ UNCHANGED <<env, launcher>>

\* run made one-shot: a suite that has run returns at once.
run_once(should_stop, plan) ==
    /\ call' = [op |-> "run", args |-> <<should_stop>>]
    /\ ret' = None
    /\ IF build_method # NoError
       THEN /\ raised' = build_method
            /\ events' = <<>>
            /\ UNCHANGED <<is_run, errors>>
       ELSE IF is_run
       THEN /\ raised' = NoError
            /\ events' = <<>>
            /\ UNCHANGED <<is_run, errors>>
       ELSE RunBody(should_stop, plan)
    /\ UNCHANGED <<program_suites, mount_data, is_build, case_classes,
                   case_instances, require, extensions, build_rules>>
    /\ UNCHANGED <<env, launcher>>

\* run(result), build-guarded.
run(should_stop, plan) ==
    /\ call' = [op |-> "run", args |-> <<should_stop>>]
    /\ ret' = None
    /\ IF build_method # NoError
       THEN /\ raised' = build_method
            /\ events' = <<>>
            /\ UNCHANGED <<is_run, errors>>
       ELSE RunBody(should_stop, plan)
    /\ UNCHANGED <<program_suites, mount_data, is_build, case_classes,
                   case_instances, require, extensions, build_rules>>
    /\ UNCHANGED <<env, launcher>>

\* ------------------------------------------------------------- __init__
\* SuiteContext.on_init, on_require, on_build_rule: the bare broadcasts.
on_init(fault) == Broadcast("on_init", fault)
on_require(fault) == Broadcast("on_require", fault)
on_build_rule(fault) == Broadcast("on_build_rule", fault)

\* The three broadcasts that end Suite.__init__, the fault being at `point`.
InitPoints == {"on_init", "on_require", "on_build_rule"}
InitBroadcasts(point, fault) ==
    LET a == on_init(IF point = "on_init" THEN fault ELSE NoFault)
        b == on_require(IF point = "on_require" THEN fault ELSE NoFault)
        c == on_build_rule(IF point = "on_build_rule" THEN fault ELSE NoFault)
    IN  IF a.err # NoError THEN a
        ELSE IF b.err # NoError
        THEN [events |-> a.events \o b.events, err |-> b.err]
        ELSE [events |-> a.events \o b.events \o c.events, err |-> c.err]

\* Suite.__init__(name, require, layers); `required` is what the constructor
\* argument, the class-level list and the on_require hooks leave in the
\* requirement list.
__init__(required, point, fault) ==
    LET b == InitBroadcasts(point, fault)
    IN  /\ call' = [op |-> "__init__", args |-> <<>>]
        /\ ret' = None
        /\ is_run' = FALSE
        /\ is_build' = FALSE
        /\ case_classes' = <<>>
        /\ case_instances' = <<>>
        /\ mount_data' = None
        /\ extensions' = <<>>
        /\ build_rules' = <<>>
        /\ require' = required
        /\ events' = b.events
        /\ raised' = b.err
        /\ UNCHANGED <<program_suites, errors>>
        /\ UNCHANGED <<env, launcher>>

\* -------------------------------------------------- mock server launcher
\* The command lines the model draws from: each option given or not (None, or
\* <<>> for the port), each flag present or not.
Argvs ==
    [port : {<<>>, <<8080>>}, host : {None, "0.0.0.0"}, mocks_dir : {None, "mocks"},
     type : {None, "simple", "json_api", "unknownkey"}, no_debug : BOOLEAN,
     multiprocessing : BOOLEAN, threading : BOOLEAN, gevent : BOOLEAN]

\* get_parser().parse_args(): the options with their defaults; --no-debug
\* stores False to NO_DEBUG, whose default is True.
parse_args(argv) ==
    [PORT |-> IF argv.port = <<>> THEN DEFAULT_PORT ELSE argv.port[1],
     HOST |-> IF argv.host = None THEN DEFAULT_HOST ELSE argv.host,
     MOCKS_DIR |-> argv.mocks_dir,
     SERVER_TYPE |-> IF argv.type = None THEN "json_api" ELSE argv.type,
     NO_DEBUG |-> ~argv.no_debug,
     MULTIPROCESSING |-> argv.multiprocessing,
     THREADING |-> argv.threading,
     GEVENT |-> argv.gevent]

\* What main passes to the server constructor.
ServerArguments(options) ==
    [type |-> options.SERVER_TYPE,
     mocks_dir |-> options.MOCKS_DIR,
     host |-> options.HOST,
     port |-> options.PORT,
     debug |-> options.NO_DEBUG,
     gevent |-> options.GEVENT,
     threading |-> options.THREADING,
     multiprocessing |-> options.MULTIPROCESSING]

\* What a server does when it is constructed and when it serves: it raises a
\* missing-key failure of its own, another failure, or nothing (None).
ServerFailures == {NoError, KeyError, OSError}

\* The except clause of main left out: every failure propagates as it is.
except_reraise(err) == err

\* `except KeyError: raise ValueError('Incorrect server type')`
except_KeyError(err) == IF err = KeyError THEN IncorrectServerType ELSE err

\* The try block of main: the lookup in SERVER_TYPES, the constructor call,
\* serve_forever.
ServerRun(options, construct, serve) ==
    IF options.SERVER_TYPE \notin SERVER_TYPES
    THEN [events |-> <<Fail("SERVER_TYPES", "KeyError")>>,
          server |-> NoServer, serving |-> FALSE, err |-> KeyError]
    ELSE IF construct # NoError
    THEN [events |-> <<Event("construct", options.SERVER_TYPE),
                       Fail("construct", construct.name)>>,
          server |-> <<ServerArguments(options)>>, serving |-> FALSE,
          err |-> construct]
    ELSE [events |-> <<Event("construct", options.SERVER_TYPE),
                       Event("serve_forever", options.SERVER_TYPE)>>
                     \o (IF serve # NoError
                         THEN <<Fail("serve_forever", serve.name)>> ELSE <<>>),
          server |-> <<ServerArguments(options)>>, serving |-> TRUE,
          err |-> serve]

\* main(), one run of the launcher's process; gevent_installed: the import
\* of gevent.monkey succeeds.
main(argv, gevent_installed, construct, serve) ==
    LET options == parse_args(argv)
        gate == IF options.GEVENT THEN check_gevent_supported ELSE NoError
        patch == IF options.GEVENT /\ ~gevent_installed THEN ImportError ELSE NoError
        r == ServerRun(options, construct, serve)
    IN  /\ call' = [op |-> "main", args |-> <<options>>]
        /\ ret' = None
        /\ IF gate # NoError
           THEN /\ events' = <<Event("check_gevent_supported", "fail")>>
                /\ raised' = gate
                /\ server' = NoServer
                /\ serving' = FALSE
           ELSE IF patch # NoError
           THEN /\ events' = <<Fail("patch_all", "ImportError")>>
                /\ raised' = patch
                /\ server' = NoServer
                /\ serving' = FALSE
           ELSE /\ events' = (IF options.GEVENT
                              THEN <<Event("patch_all", "gevent")>> ELSE <<>>)
                             \o <<Event("import", "SERVER_TYPES")>> \o r.events
                /\ raised' = except_KeyError(r.err)
                /\ server' = r.server
                /\ serving' = r.serving
        /\ UNCHANGED <<program_suites, mount_data, is_run, is_build, case_classes,
                       case_instances, require, extensions, build_rules, errors>>
        /\ UNCHANGED env

\* ------------------------------------------------------- specifications
\* The suite right after Suite.__init__: nothing mounted, built or run, no
\* case registered, no extension resolved; the requirement list holds what
\* the constructor argument, the class-level list and the on_require hooks
\* put there.  The configuration flags, the interpreter generation, the
\* class-level group override and the layers' enabled flags are fixed from
\* outside the suite.
InitIn(configs, py3s, groups, enableds, requires) ==
    /\ program_suites = [p \in Programs |-> <<>>]
    /\ program_config = [p \in Programs |-> IF p = "p1" THEN "cfg1" ELSE "cfg2"]
    /\ \E c \in configs : config_flags = [x \in {"cfg1", "cfg2"} |-> c]
    /\ IS_PYTHON_3 \in py3s
    /\ case_group_class \in groups
    /\ enabled \in enableds
    /\ mount_data = None
    /\ is_run = FALSE
    /\ is_build = FALSE
    /\ case_classes = <<>>
    /\ case_instances = <<>>
    /\ require \in requires
    /\ extensions = <<>>
    /\ build_rules = <<>>
    /\ errors = <<>>
    /\ call = [op |-> "__init__", args |-> <<>>]
    /\ raised = NoError
    /\ ret = None
    /\ events = <<>>
    /\ server = NoServer
    /\ serving = FALSE

Flags(g, t, m) == [GEVENT |-> g, THREADING |-> t, MULTIPROCESSING |-> m]
AllEnabled == [l \in Layers |-> TRUE]

MountToIn(programs, faults) ==
    \E p \in programs, f \in faults : mount_to(p, f)

RegisterIn(classes, kwargs) ==
    \E cls \in classes \cup {None}, kw \in kwargs, d \in classes \cup {None} :
        /\ cls # None \/ ~kw.given => d = None
        /\ register(cls, kw, d)
        /\ Len(case_classes') <= MaxCases
        /\ Len(require') <= MaxRequire

AssignBuildRuleIn(rules) ==
    \E rule \in rules :
        /\ assign_build_rule(rule)
        /\ Len(build_rules') <= MaxRules

BuildIn(arguments) ==
    \E a \in arguments :
        /\ build(a[1], a[2], a[3])
        /\ Len(case_instances') <= MaxUnits

ExtIn(names) == \E name \in names : ext(name)

\* A plan says only what the run reaches: nothing when the body of run does
\* not execute, no fault on the way out of a scope that is never entered, no
\* fault of on_error when nothing fails.
QuietPlan == [body |-> NoPoint, exit |-> NoPoint, on_error |-> None, at |-> 1]
Relevant(should_stop, plan) ==
    /\ ~(is_build /\ ~should_stop /\ case_instances # <<>>) => plan = QuietPlan
    /\ plan.body.point \in {"on_run", "setup", "on_setup"} => plan.exit = NoPoint
    /\ plan.body = NoPoint /\ plan.exit = NoPoint =>
           plan.on_error = None /\ plan.at = 1

RunIn(stops, plans) ==
    \E should_stop \in stops, plan \in plans :
        /\ Relevant(should_stop, plan)
        /\ run(should_stop, plan)
        /\ Len(errors') <= MaxErrors

\* The mount and run side of the suite: every program, every fault of the
\* hooks, every plan of a run; one case class, no keyword options, no rules.
Init ==
    InitIn({Flags(FALSE, FALSE, FALSE)}, {TRUE}, {None},
           {AllEnabled, [l \in Layers |-> l # "LC"]}, {<<"ext1">>})

Next ==
    \/ MountToIn(Programs, Faults)
    \/ config
    \/ RegisterIn({"CaseA"}, {NoKwargs})
    \/ BuildIn({<<None, None, None>>})
    \/ ExtIn({"ext1", "ext2"})
    \/ RunIn(BOOLEAN, Plans)

Spec == Init /\ [][Next]_vars

\* The build side of the suite: every case, build rule and build argument;
\* one program, no keyword options, hooks that do not fail.
InitBuild == InitIn({Flags(FALSE, FALSE, FALSE)}, {TRUE}, {None}, {AllEnabled}, {<<"ext1">>})

NextBuild ==
    \/ MountToIn({"p1"}, {NoFault})
    \/ RegisterIn(CaseNames, {NoKwargs})
    \/ AssignBuildRuleIn(Rules)
    \/ BuildIn(BuildArguments)
    \/ RunIn(BOOLEAN, {QuietPlan})

SpecBuild == InitBuild /\ [][NextBuild]_vars

\* The extension side of the suite: every requirement list, every keyword
\* option of register, every extension name; one program, no build rule.
InitRegister ==
    InitIn({Flags(FALSE, FALSE, FALSE)}, {TRUE}, {None}, {AllEnabled},
           {<<>>, <<"ext1">>, <<"ext1", "ext1">>, <<"extX">>})

NextRegister ==
    \/ MountToIn({"p1"}, {NoFault})
    \/ RegisterIn(CaseNames, Kwargs)
    \/ BuildIn({<<None, None, None>>})
    \/ ExtIn(ExtNames)

SpecRegister == InitRegister /\ [][NextRegister]_vars

\* The suite from before its construction: every fault of the hooks of the
\* constructor's broadcasts, of mount_to and of a run; one case class.
Unconstructed(enableds) ==
    /\ program_suites = [p \in Programs |-> <<>>]
    /\ program_config = [p \in Programs |-> IF p = "p1" THEN "cfg1" ELSE "cfg2"]
    /\ config_flags = [x \in {"cfg1", "cfg2"} |-> Flags(FALSE, FALSE, FALSE)]
    /\ IS_PYTHON_3 = TRUE
    /\ case_group_class = None
    /\ enabled \in enableds
    /\ mount_data = None
    /\ is_run = FALSE
    /\ is_build = FALSE
    /\ case_classes = <<>>
    /\ case_instances = <<>>
    /\ require = <<>>
    /\ extensions = <<>>
    /\ build_rules = <<>>
    /\ errors = <<>>
    /\ call = [op |-> "new", args |-> <<>>]
    /\ raised = NoError
    /\ ret = None
    /\ events = <<>>
    /\ server = NoServer
    /\ serving = FALSE

InitNew == Unconstructed({AllEnabled})

\* The constructor has returned a suite.
Constructed == call.op # "new" /\ ~(call.op = "__init__" /\ raised # NoError)

\* A suite is constructed when none is; a failed construction returns none.
ConstructIn(requires, faults) ==
    \E required \in requires, point \in InitPoints, fault \in faults :
        /\ ~Constructed
        /\ fault = NoFault => point = "on_init"
        /\ __init__(required, point, fault)

NextNew ==
    \/ ConstructIn({<<>>, <<"ext1">>}, Faults)
    \/ Constructed /\ MountToIn(Programs, Faults)
    \/ Constructed /\ RegisterIn({"CaseA"}, {NoKwargs})
    \/ Constructed /\ BuildIn({<<None, None, None>>})
    \/ Constructed /\ RunIn(BOOLEAN, Plans)

SpecNew == InitNew /\ [][NextNew]_vars

\* The run of a built suite: every plan of a run, should-stop set or not;
\* one program, one case class, hooks of mount_to that do not fail.
InitRun == InitIn({Flags(FALSE, FALSE, FALSE)}, {TRUE}, {None}, {AllEnabled}, {<<>>})

NextRun ==
    \/ MountToIn({"p1"}, {NoFault})
    \/ RegisterIn({"CaseA"}, {NoKwargs})
    \/ BuildIn({<<None, None, None>>})
    \/ RunIn(BOOLEAN, Plans)

SpecRun == InitRun /\ [][NextRun]_vars

\* The selection of the case group: every setting of the three flags, both
\* interpreter generations, with and without a class-level group; one
\* program, one case class, a group that fails or not.
InitGroup ==
    InitIn({Flags(g, t, m) : g, t, m \in BOOLEAN}, BOOLEAN, {None, "CustomGroup"},
           {AllEnabled}, {<<>>})

GroupPlans ==
    {QuietPlan} \cup
    {[QuietPlan EXCEPT !.body = [point |-> "group", kind |-> k]] : k \in Kinds}

NextGroup ==
    \/ MountToIn({"p1"}, {NoFault})
    \/ RegisterIn({"CaseA"}, {NoKwargs})
    \/ BuildIn({<<None, None, None>>})
    \/ RunIn(BOOLEAN, GroupPlans)

SpecGroup == InitGroup /\ [][NextGroup]_vars

\* The layers: every layer enabled, each one disabled alone, each one
\* enabled alone; every position of an ordinary failure in every broadcast.
LayerSettings ==
    {AllEnabled}
    \cup {[l \in Layers |-> l # off] : off \in Layers}
    \cup {[l \in Layers |-> l = on] : on \in Layers}

OrdinaryFaults == {f \in Faults : f.kind # "allow"}
OrdinaryPlans ==
    {plan \in Plans : /\ plan.body.kind # "allow" /\ plan.exit.kind # "allow"
                      /\ plan.on_error # "allow"
                      /\ plan.body.point \notin {"setup", "group"}
                      /\ plan.exit.point # "teardown"}
    \cup {[QuietPlan EXCEPT !.body = [point |-> "group", kind |-> "other"]]}

InitLayers == Unconstructed(LayerSettings)

NextLayers ==
    \/ ConstructIn({<<>>}, OrdinaryFaults)
    \/ Constructed /\ MountToIn({"p1"}, OrdinaryFaults)
    \/ Constructed /\ RegisterIn({"CaseA"}, {NoKwargs})
    \/ Constructed /\ BuildIn({<<None, None, None>>})
    \/ Constructed /\ RunIn({FALSE}, OrdinaryPlans)

SpecLayers == InitLayers /\ [][NextLayers]_vars

\* The mock-server launcher: every command line, both interpreter
\* generations, gevent installed or not, every behaviour of the server.
InitLauncher == InitIn({Flags(FALSE, FALSE, FALSE)}, BOOLEAN, {None}, {AllEnabled}, {<<>>})

\* One process runs main once.
NextLauncher ==
    \E argv \in Argvs, gevent_installed \in BOOLEAN,
       construct \in ServerFailures, serve \in ServerFailures :
        /\ call.op # "main"
        /\ ~argv.gevent => gevent_installed
        /\ construct # NoError => serve = NoError
        /\ main(argv, gevent_installed, construct, serve)

SpecLauncher == InitLauncher /\ [][NextLauncher]_vars

\* ------------------------------------------------------------------ claims
\* How many times the suite stands in the suite lists of all programs.
RECURSIVE Mounts(_)
Mounts(programs) ==
    IF programs = {} THEN 0
    ELSE LET p == CHOOSE x \in programs : TRUE
         IN  Count(program_suites[p], SuiteName) + Mounts(programs \ {p})

\* C1: the first mount_to appends the suite to the suite list of the program
\* it is given and snapshots that program's configuration; every later
\* mount_to, to any program, fails with AlreadyMounted and changes neither a
\* suite list nor the snapshot; so the suite stands at most once in the suite
\* lists of all programs together.
C1_MountOnce ==
    /\ [](Mounts(Programs) <= 1)
    /\ [][call'.op = "mount_to" =>
            IF mount_data = None
            THEN /\ program_suites' = [program_suites EXCEPT
                                          ![call'.args[1]] = Append(@, SuiteName)]
                 /\ mount_data' = program_config[call'.args[1]]
            ELSE /\ raised' = AlreadyMounted
                 /\ UNCHANGED <<program_suites, mount_data>>]_vars

\* A second mount_to, to the other program, was rejected.
C1_Witness ==
    /\ call.op = "mount_to"
    /\ call.args[1] = "p2"
    /\ raised = AlreadyMounted
    /\ program_suites = [p \in Programs |-> IF p = "p1" THEN <<SuiteName>> ELSE <<>>]
    /\ mount_data = "cfg1"

\* C2: once a build has completed, every later build, whatever its
\* arguments, fails with AlreadyBuilt and changes neither the built units nor
\* the resolved extensions.
C2_BuildOnce ==
    /\ [](is_build => mount_data # None)
    /\ [][call'.op = "build" /\ is_build =>
            /\ raised' = AlreadyBuilt
            /\ UNCHANGED <<case_instances, extensions, is_build>>]_vars

\* A second build, naming a registered case, was rejected on a suite with
\* built units and a build rule.
C2_Witness ==
    /\ call.op = "build"
    /\ call.args[1] = "CaseA"
    /\ raised = AlreadyBuilt
    /\ is_build
    /\ case_instances # <<>>
    /\ build_rules # <<>>
    /\ "CaseA" \in Range(case_classes)

\* What a rejected call must leave alone.
Lifecycle == <<program_suites, mount_data, is_run, is_build, case_classes,
               case_instances, require, extensions, build_rules, errors>>

\* C3: build and the config accessor on a suite that is not mounted fail
\* with NotMounted; run and ext on a suite that is not built fail with
\* NotBuilt; the rejected call executes nothing and changes nothing, the
\* "is run" flag included.
C3_Guards ==
    [][/\ call'.op \in {"build", "config"} /\ mount_data = None =>
            raised' = NotMounted /\ events' = <<>> /\ UNCHANGED Lifecycle
       /\ call'.op \in {"run", "ext"} /\ ~is_build =>
            raised' = NotBuilt /\ events' = <<>> /\ UNCHANGED Lifecycle]_vars

\* A run was rejected on a mounted suite that is not built.
C3_Witness ==
    /\ call.op = "run"
    /\ raised = NotBuilt
    /\ mount_data # None
    /\ ~is_build
    /\ ~is_run

\* C4: on a built suite, run with the should-stop flag set, or with no
\* built unit, sets the "is run" flag and does nothing else: no group, no
\* result handle, no hook, no callback, nothing written to the result sink.
C4_EarlyReturn ==
    [][call'.op = "run" /\ is_build
         /\ (call'.args[1] \/ case_instances = <<>>) =>
            /\ is_run'
            /\ events' = <<>>
            /\ raised' = NoError
            /\ UNCHANGED <<program_suites, mount_data, is_build, case_classes,
                           case_instances, require, extensions, build_rules,
                           errors>>]_vars

\* A run with should-stop set returned at once on a suite with built units.
C4_Witness ==
    /\ call.op = "run"
    /\ call.args[1] = TRUE
    /\ is_build
    /\ case_instances # <<>>
    /\ is_run
    /\ events = <<>>
    /\ raised = NoError

\* ---- the log of one run
\* The positions of the log at which a target of the try block raised.
TryFails(log) ==
    {i \in DOMAIN log : log[i].ev = "fail" /\ log[i].who \in BodyPoints \cup ExitPoints}
Where(log, e) == {i \in DOMAIN log : log[i] = e}
Writes(log) == {i \in DOMAIN log : log[i].ev = "add_error"}
OnErrorFails(log) == {i \in DOMAIN log : log[i].ev = "fail" /\ log[i].who = "on_error"}
Last(S) == CHOOSE i \in S : \A j \in S : j <= i

\* The failure at position i of the log was recorded once, then on_error was
\* broadcast once.
RecordedOnce(log, i) ==
    /\ errors' = Append(errors, ErrorRecord(Error(log[i].who, log[i].kind)))
    /\ Cardinality(Writes(log)) = 1
    /\ Cardinality(Where(log, Event("broadcast", "on_error"))) = 1
    /\ \A w \in Writes(log), b \in Where(log, Event("broadcast", "on_error")) :
           i < w /\ w < b

\* C5 as stated: every failure of a kind outside the always-propagate set
\* that is raised in the try block of run (by the on_run broadcast, the setup
\* or teardown callbacks, the on_setup or on_teardown broadcast, or the
\* group) is recorded exactly once in the result handle, then on_error is
\* broadcast once, and run returns normally.
C5_AsStated ==
    [][call'.op = "run" =>
          \A i \in TryFails(events') :
              events'[i].kind = "other" =>
                  RecordedOnce(events', i) /\ raised' = NoError]_vars

\* C5, amended: the failure that leaves the try block of run (the failure
\* raised there, or the failure of the teardown callbacks or of the
\* on_teardown broadcast that replaced it), when its kind is outside the
\* always-propagate set, is recorded exactly once in the result handle, then
\* on_error is broadcast once; run returns normally unless a hook of that
\* on_error broadcast fails, and then that failure is raised to the caller.
C5_LastFailureRecorded ==
    [][call'.op = "run" /\ TryFails(events') # {} =>
          LET i == Last(TryFails(events'))
          IN  events'[i].kind = "other" =>
                  /\ RecordedOnce(events', i)
                  /\ IF OnErrorFails(events') = {}
                     THEN raised' = NoError
                     ELSE /\ Cardinality(OnErrorFails(events')) = 1
                          /\ \A j \in OnErrorFails(events') :
                                 raised' = Error("on_error", events'[j].kind)]_vars

\* The group raised an ordinary failure after an error-free setup; it was
\* recorded and the run returned normally.
C5_Witness ==
    /\ call.op = "run"
    /\ Where(events, Fail("group", "other")) # {}
    /\ Cardinality(TryFails(events)) = 1
    /\ errors = <<ErrorRecord(Error("group", "other"))>>
    /\ Where(events, Event("broadcast", "on_error")) # {}
    /\ raised = NoError

\* C6: a failure of an always-propagate kind raised by the group is raised
\* by run to its caller unchanged; nothing is written to the result sink and
\* no on_error broadcast is made.
C6_AsStated ==
    [][call'.op = "run" /\ Where(events', Fail("group", "allow")) # {} =>
          /\ raised' = Error("group", "allow")
          /\ errors' = errors
          /\ Writes(events') = {}
          /\ Where(events', Event("broadcast", "on_error")) = {}]_vars

\* C7 as stated: when the group raises inside the entered scope, the
\* teardown callbacks and then the on_teardown broadcast run exactly once,
\* after the failure and before run handles or raises it.
Teardowns(log) == {i \in DOMAIN log : log[i].ev = "teardown"}
GroupFails(log) == {i \in DOMAIN log : log[i].ev = "fail" /\ log[i].who = "group"}
Handling(log) ==
    Writes(log) \cup Where(log, Event("broadcast", "on_error"))
    \cup Where(log, Event("proxy", "exit"))

C7_AsStated ==
    [][call'.op = "run" /\ GroupFails(events') # {} =>
          /\ Cardinality(Teardowns(events')) = 1
          /\ Cardinality(Where(events', Event("broadcast", "on_teardown"))) = 1
          /\ \A g \in GroupFails(events'), t \in Teardowns(events'),
                b \in Where(events', Event("broadcast", "on_teardown")),
                h \in Handling(events') :
                 g < t /\ t < b /\ b < h]_vars

\* C7, amended: when the group raises inside the entered scope, the seeded
\* teardown callbacks run exactly once, after the failure and before run
\* handles or raises it; the on_teardown broadcast follows them exactly once
\* when they complete, and is not made when a teardown callback raises.
C7_TeardownOnce ==
    [][call'.op = "run" /\ GroupFails(events') # {} =>
          /\ Cardinality(Teardowns(events')) = 1
          /\ Cardinality(Where(events', Event("broadcast", "on_teardown")))
                = (IF Where(events', Fail("teardown", "other")) = {}
                      /\ Where(events', Fail("teardown", "allow")) = {}
                   THEN 1 ELSE 0)
          /\ \A g \in GroupFails(events'), t \in Teardowns(events'),
                h \in Handling(events') :
                 /\ g < t /\ t < h
                 /\ \A b \in Where(events', Event("broadcast", "on_teardown")) :
                        t < b /\ b < h]_vars

\* The group raised, the teardown callback and every on_teardown hook ran,
\* and the failure was then recorded.
C7_Witness ==
    /\ call.op = "run"
    /\ GroupFails(events) # {}
    /\ Cardinality(Teardowns(events)) = 1
    /\ Where(events, Event("on_teardown", "LM")) # {}
    /\ Cardinality(TryFails(events)) = 1
    /\ Writes(events) # {}

\* C8: on a built suite, ext(name) fails with ExtensionNotRequired when the
\* name is not in the suite's requirement list, registered process-wide or
\* not; for a name in the list it returns the instance the registry resolves
\* the name to, never an absent value.
C8_AsStated ==
    [][call'.op = "ext" /\ is_build =>
          IF call'.args[1] \notin Range(require)
          THEN raised' = ExtensionNotRequired
          ELSE /\ raised' = NoError
               /\ ret' # None
               /\ call'.args[1] \in DOMAIN Registry
               /\ ret' = Registry[call'.args[1]]]_vars

\* C9: register with neither a case nor keyword options fails with
\* MissingArgument, with both it fails with ArgumentConflict, and either
\* failure leaves the registered cases as they were; a register that
\* registers a case appends that one class to the registered cases and
\* returns it.
C9_Register ==
    [][call'.op = "register" =>
          LET cls == call'.args[1]
              given == call'.args[2]
              decorated == call'.args[3]
              case == IF cls # None THEN cls ELSE decorated
          IN  /\ cls = None /\ ~given =>
                     raised' = MissingArgument /\ UNCHANGED case_classes
              /\ cls # None /\ given =>
                     raised' = ArgumentConflict /\ UNCHANGED case_classes
              /\ raised' = NoError /\ case # None =>
                     /\ case_classes' = Append(case_classes, case)
                     /\ ret' = case
              /\ raised' # NoError \/ case = None => UNCHANGED case_classes]_vars

\* A case given together with keyword options was rejected on a suite that
\* already holds a registered case.
C9_Witness ==
    /\ call.op = "register"
    /\ call.args[1] = "func"
    /\ call.args[2] = TRUE
    /\ raised = ArgumentConflict
    /\ case_classes = <<"CaseA">>

\* C10: assign_build_rule fails with InvalidArgument and leaves the build
\* rules as they were when the rule's suite name is not the suite's name;
\* when it is, the call succeeds and appends the rule iff the rule has a
\* case name.
C10_AssignBuildRule ==
    [][call'.op = "assign_build_rule" =>
          LET rule == call'.args[1]
          IN  IF rule.suite_name # SuiteName
              THEN raised' = InvalidArgument /\ UNCHANGED build_rules
              ELSE /\ raised' = NoError
                   /\ build_rules' = IF rule.case_name \in CaseNames
                                     THEN Append(build_rules, rule)
                                     ELSE build_rules]_vars

\* A rule of another suite, with a case name, was rejected on a suite that
\* holds a rule.
C10_Witness ==
    /\ call.op = "assign_build_rule"
    /\ call.args[1].suite_name = "other"
    /\ call.args[1].case_name = "CaseA"
    /\ raised = InvalidArgument
    /\ Len(build_rules) = 1

\* ---- the mock-server launcher
\* C11 as stated: with a type key that is not in the registry the launcher
\* terminates with "Incorrect server type", no server constructor called and
\* no serve_forever invoked; with a registered key it calls the constructor
\* with the parsed mocks directory, host, port, debug flag and concurrency
\* flags and then invokes serve_forever.
C11_AsStated ==
    [][call'.op = "main" =>
          LET options == call'.args[1]
          IN  IF options.SERVER_TYPE \notin SERVER_TYPES
              THEN /\ raised' = IncorrectServerType
                   /\ server' = NoServer
                   /\ ~serving'
              ELSE /\ server' = <<ServerArguments(options)>>
                   /\ serving']_vars

\* The launcher reached the registry: the cooperative flag is not set, or the
\* compatibility gate passed and gevent was patched in.
PastGate(log) == Where(log, Event("import", "SERVER_TYPES")) # {}

\* C11, amended: a launcher that fails the compatibility gate or the import
\* of gevent terminates with that failure and constructs nothing; past the
\* gate, with a type key that is not in the registry it terminates with
\* "Incorrect server type", no server constructor called and no serve_forever
\* invoked; with a registered key it calls the constructor once, with the
\* parsed mocks directory, host, port, debug flag and concurrency flags, and
\* invokes serve_forever iff the constructor completes.
C11_Launcher ==
    [][call'.op = "main" =>
          LET options == call'.args[1]
          IN  IF ~PastGate(events')
              THEN /\ options.GEVENT
                   /\ raised' \in {VersionUnsupported, ImportError}
                   /\ server' = NoServer
                   /\ ~serving'
              ELSE IF options.SERVER_TYPE \notin SERVER_TYPES
              THEN /\ raised' = IncorrectServerType
                   /\ server' = NoServer
                   /\ ~serving'
                   /\ Where(events', Event("construct", options.SERVER_TYPE)) = {}
              ELSE /\ server' = <<[type |-> options.SERVER_TYPE,
                                   mocks_dir |-> options.MOCKS_DIR,
                                   host |-> options.HOST,
                                   port |-> options.PORT,
                                   debug |-> options.NO_DEBUG,
                                   gevent |-> options.GEVENT,
                                   threading |-> options.THREADING,
                                   multiprocessing |-> options.MULTIPROCESSING]>>
                   /\ serving' <=>
                          Where(events', Fail("construct", "KeyError")) = {}
                          /\ Where(events', Fail("construct", "OSError")) = {}]_vars

\* An unregistered type key, given with options of its own, was rejected
\* before any constructor was called.
C11_Witness ==
    /\ call.op = "main"
    /\ call.args[1].SERVER_TYPE = "unknownkey"
    /\ call.args[1].PORT = 8080
    /\ raised = IncorrectServerType
    /\ server = NoServer
    /\ ~serving

\* C20: the launcher reports "Incorrect server type" only when the type key
\* is not in the registry; a failure raised by the constructor of a
\* registered server type or by its serve_forever, a missing-key failure of
\* the server's own included, is never reported as "Incorrect server type".
C20_AsStated ==
    [][call'.op = "main" /\ raised' = IncorrectServerType =>
          call'.args[1].SERVER_TYPE \notin SERVER_TYPES]_vars

\* ---- build
\* C12: in every reachable state the built-unit collection is non-empty only
\* if the suite is built; a build that fails part-way leaves no built units.
C12_AsStated == case_instances # <<>> => is_build

\* ---- the order of one run
\* The place of a log entry in the sequence of a run: 0 for what the
\* sequence does not name (failures, markers, the handling of a failure).
Rank(e) ==
    LET hook == IF e.ev = "broadcast" THEN e.who ELSE e.ev
    IN  IF hook = "make_group" THEN 1
        ELSE IF hook = "measure_time" THEN 2
        ELSE IF hook = "proxy" THEN (IF e.who = "enter" THEN 3 ELSE 10)
        ELSE IF hook = "on_run" THEN 4
        ELSE IF hook = "setup" THEN 5
        ELSE IF hook = "on_setup" THEN 6
        ELSE IF hook = "group" THEN 7
        ELSE IF hook = "teardown" THEN 8
        ELSE IF hook = "on_teardown" THEN 9
        ELSE 0

\* The entries of the log that stand for a step taken once: the selection
\* of the group, the start of the measurement, the acquisition and the
\* release of the handle, each broadcast, each callback, the group's call.
Steps(log) ==
    {i \in DOMAIN log :
        log[i].ev \in {"make_group", "measure_time", "proxy", "broadcast",
                       "setup", "teardown", "group"}}

RanksOf(log) == [i \in DOMAIN log |-> Rank(log[i])]
Ranks(log) == Range(RanksOf(log)) \ {0}
Fails(log) == {i \in DOMAIN log : log[i].ev = "fail"}

\* C13: in a run past the early return, what happens happens in this order:
\* the group is selected, the time measurement starts, the result handle is
\* acquired, on_run is broadcast, the setup callbacks run, on_setup is
\* broadcast, the group is invoked, the teardown callbacks run, on_teardown
\* is broadcast, the result handle is released; no step is taken twice; a
\* run in which nothing fails takes every step; a run whose on_run broadcast
\* fails takes no step of setup, group or teardown.
C13_RunOrder ==
    [][call'.op = "run" /\ events' # <<>> /\ raised' # NotBuilt =>
          /\ \A r \in {RanksOf(events')} :
                 \A i, j \in DOMAIN r :
                     i < j /\ r[i] > 0 /\ r[j] > 0 => r[i] <= r[j]
          /\ \A steps \in {Steps(events')} :
                 Cardinality({events'[i] : i \in steps}) = Cardinality(steps)
          /\ \A taken \in {Ranks(events')} :
                 /\ {1, 2, 3, 4, 10} \subseteq taken
                 /\ Fails(events') = {} => taken = 1..10
                 /\ Where(events', Fail("on_run", "other")) # {}
                       \/ Where(events', Fail("on_run", "allow")) # {} =>
                            taken \cap 5..9 = {}]_vars

\* A run in which nothing failed took every step, the hooks of three layers
\* included.
C13_Witness ==
    /\ call.op = "run"
    /\ Fails(events) = {}
    /\ Ranks(events) = 1..10
    /\ Where(events, Event("on_setup", "LC")) # {}
    /\ Where(events, Event("on_teardown", "LM")) # {}
    /\ raised = NoError

\* ---- the phases
\* The phase a failing target belongs to: the name its broadcast wrapper
\* marks the suite with.
Phase(who) ==
    IF who = "on_init" THEN "init"
    ELSE IF who \in {"setup", "on_setup"} THEN "start_context"
    ELSE IF who \in {"teardown", "on_teardown"} THEN "stop_context"
    ELSE who

\* The failure at position i of the log is followed by the marker of its phase.
Tagged(log, i) ==
    /\ i + 1 \in DOMAIN log
    /\ log[i + 1] = Event("stopped_on", Phase(log[i].who))

\* C14: a failure raised inside the init, start_context, stop_context,
\* on_run or on_error broadcast of a suite is tagged with the marker naming
\* that phase and re-raised; a failure of the on_error broadcast is raised
\* by run to its caller after the original error was recorded.
C14_AsStated ==
    [][/\ \A i \in Fails(events') :
              events'[i].who \in {"on_init", "setup", "on_setup", "teardown",
                                  "on_teardown", "on_run", "on_error"} =>
                  Tagged(events', i)
       /\ call'.op = "run" /\ OnErrorFails(events') # {} =>
              /\ \A i \in OnErrorFails(events') :
                     raised' = Error("on_error", events'[i].kind)
              /\ Len(errors') = Len(errors) + 1
              /\ \A w \in Writes(events'), i \in OnErrorFails(events') : w < i]_vars

\* ---- the case group
\* The run selected the group g and invoked it.
Selected(log, g) ==
    /\ Where(log, Event("make_group", g)) # {}
    /\ Where(log, Event("group", g)) # {}
    /\ \A i \in DOMAIN log : log[i].ev \in {"make_group", "group"} => log[i].who = g

\* C15: a run past the early return selects the class-level group whenever
\* one is set, whatever the flags and without the compatibility gate;
\* otherwise the cooperative group when the cooperative flag is set and the
\* gate passes, a gate failure being raised by run as VersionUnsupported
\* before any result write, broadcast or unit execution; otherwise the
\* thread-pool group when the thread-pool or the fork-pool flag is set;
\* otherwise the sequential default group.
C15_GroupSelection ==
    [][call'.op = "run" /\ is_build /\ ~call'.args[1] /\ case_instances # <<>> =>
          LET cfg == config_flags[mount_data]
          IN  IF case_group_class # None
              THEN Selected(events', case_group_class) /\ raised' # VersionUnsupported
              ELSE IF cfg.GEVENT
              THEN IF IS_PYTHON_3
                   THEN /\ raised' = VersionUnsupported
                        /\ errors' = errors
                        /\ \A i \in DOMAIN events' :
                               events'[i].ev \notin
                                   {"broadcast", "group", "make_group", "add_error",
                                    "proxy", "setup", "teardown"}
                   ELSE Selected(events', "GeventCaseGroup")
              ELSE IF cfg.THREADING \/ cfg.MULTIPROCESSING
              THEN Selected(events', "ThreadingCaseGroup")
              ELSE Selected(events', "DefaultCaseGroup")]_vars

\* With the cooperative flag set on an interpreter the gate rejects, a run
\* of a suite with a class-level group invoked that group.
C15_Witness ==
    /\ call.op = "run"
    /\ mount_data # None
    /\ config_flags[mount_data].GEVENT
    /\ IS_PYTHON_3
    /\ case_group_class = "CustomGroup"
    /\ Selected(events, "CustomGroup")
    /\ raised = NoError

\* ---- the extensions
\* How many times the registry was asked for the name in one call.
Gets(log, name) == Cardinality(Where(log, Event("get", name)))

\* C16, resolution is lazy: a newly constructed suite has resolved nothing,
\* and only build changes the resolved extensions.
C16_Lazy ==
    /\ [](call.op = "__init__" => extensions = <<>>)
    /\ [][call'.op # "build" => UNCHANGED extensions]_vars

\* C16, resolution is at most once per name: a build asks the registry once
\* for each distinct required name that is not resolved yet, however often
\* the name stands in the list, and never for a resolved one; a resolved
\* name stays resolved; when a build completes, the resolved names are
\* exactly the required names.
C16_Once ==
    [][/\ \A name \in ExtNames :
              Gets(events', name) =
                  (IF /\ call'.op = "build" /\ raised' \notin {NotMounted, AlreadyBuilt}
                      /\ name \in Range(require) /\ name \notin DOMAIN extensions
                      /\ \A i \in DOMAIN require :
                             require[i] \notin DOMAIN Registry =>
                                 \E j \in 1..i : require[j] = name
                   THEN 1 ELSE 0)
       /\ \A name \in DOMAIN extensions :
              name \in DOMAIN extensions' /\ extensions'[name] = extensions[name]
       /\ call'.op = "build" /\ raised' = NoError /\ ~is_build =>
              DOMAIN extensions' = Range(require')]_vars

\* C16 as stated: resolution is lazy and at most once per name, and in every
\* state after a completed build the resolved names are exactly the required
\* names.
C16_AsStated ==
    /\ C16_Lazy
    /\ C16_Once
    /\ [](is_build => DOMAIN extensions = Range(require))

\* ---- what build builds
\* The units of one case: every test of the case, or the named one.
UnitsOf(case_name, test_name) ==
    IF test_name \in {"test_one", "test_two", "test"}
    THEN << <<case_name, test_name>> >>
    ELSE [i \in 1..Len(TestsOf(case_name)) |-> <<case_name, TestsOf(case_name)[i]>>]

\* The units of every rule, in rule order.
RECURSIVE UnitsOfRules(_)
UnitsOfRules(rules) ==
    IF rules = <<>> THEN <<>>
    ELSE UnitsOf(Head(rules).case_name, Head(rules).test_name)
         \o UnitsOfRules(Tail(rules))

\* The units of every case class, in registration order.
RECURSIVE UnitsOfClasses(_)
UnitsOfClasses(classes) ==
    IF classes = <<>> THEN <<>>
    ELSE UnitsOf(Head(classes), None) \o UnitsOfClasses(Tail(classes))

\* What a build with these arguments selects.
Selection(case_name, test_name) ==
    IF build_rules # <<>> /\ case_name \notin CaseNames
    THEN UnitsOfRules(build_rules)
    ELSE IF case_name \in CaseNames
    THEN UnitsOf(case_name, test_name)
    ELSE UnitsOfClasses(case_classes)

\* C17: the built units of a completed build are, with a retained rule and
\* no case name passed, the units of each rule's case and test in rule
\* order; with a case name passed, the units of that case alone (of the
\* named test, if any), the rules ignored; otherwise the units of every
\* registered case class in registration order; the shuffle function, when
\* given, is applied once to that complete collection before the suite is
\* marked built.
C17_AsStated ==
    [][call'.op = "build" /\ raised' = NoError =>
          /\ is_build'
          /\ case_instances' =
                 IF call'.args[3] # None
                 THEN Reverse(Selection(call'.args[1], call'.args[2]))
                 ELSE Selection(call'.args[1], call'.args[2])]_vars

\* ---- the layers
Hooks ==
    {"on_init", "on_require", "on_build_rule", "on_mount", "on_run", "on_setup",
     "on_teardown", "on_error"}

\* The layers one broadcast of the hook visited, in order.
RECURSIVE Visits(_, _)
Visits(log, hook) ==
    IF log = <<>> THEN <<>>
    ELSE (IF Head(log).ev = hook THEN <<Head(log).who>> ELSE <<>>)
         \o Visits(Tail(log), hook)

\* Where a layer stands in the order of dispatch.
Place(layer) ==
    IF layer \in Range(DEFAULT_LAYERS) THEN 1
    ELSE IF layer \in Range(CtorLayers) THEN 2
    ELSE IF layer \in Range(ClassLayers) THEN 3
    ELSE 4

Matched(visits) == {i \in DOMAIN visits : Place(visits[i]) = 4}
Applicable == {l \in Layers : enabled[l] /\ Place(l) < 4}

\* The order of dispatch, the disabled layers, the stop at the first failure.
Dispatch(log, hook, visits) ==
    /\ \A i, j \in DOMAIN visits : i < j => Place(visits[i]) <= Place(visits[j])
    /\ \A i, j \in DOMAIN visits : i < j => visits[i] # visits[j]
    /\ \A i \in DOMAIN visits : enabled[visits[i]]
    /\ \A i, j \in DOMAIN log :
           log[i].ev = "fail" /\ log[i].who = hook /\ i < j => log[j].ev # hook
    /\ Where(log, Event("broadcast", hook)) # {}
          /\ (\A i \in DOMAIN log : ~(log[i].ev = "fail" /\ log[i].who = hook)) =>
              Applicable \subseteq Range(visits)

\* C18: every broadcast visits the enabled default layers, then the enabled
\* layers of the suite instance, constructor-supplied before class-level,
\* then the one enabled layer matched by the suite's type, if any; it never
\* invokes a disabled layer, invokes at most one type-matched layer, and
\* stops at the first hook that fails.
C18_AsStated ==
    [][\A hook \in Hooks :
           \A visits \in {Visits(events', hook)} :
               /\ Dispatch(events', hook, visits)
               /\ Cardinality(Matched(visits)) <= 1]_vars

\* ---- run again
\* C19: run is not one-shot: on a built suite with units and should-stop
\* false, a run of a suite that has run before is accepted and makes the
\* on_run broadcast again, and when nothing fails in it, takes every step of
\* the run sequence over the same built units; the "is run" flag turns true
\* at the first accepted run and is true ever after.
C19_RunAgain ==
    /\ [][call'.op = "run" /\ is_build /\ is_run
             /\ ~call'.args[1] /\ case_instances # <<>> =>
              /\ raised' \notin {NotBuilt, AlreadyBuilt}
              /\ Where(events', Event("broadcast", "on_run")) # {}
              /\ Fails(events') = {} =>
                     /\ Ranks(events') = 1..10
                     /\ raised' = NoError
              /\ UNCHANGED case_instances]_vars
    /\ [][call'.op = "run" /\ is_build => is_run']_vars
    /\ [][is_run' # is_run =>
              ~is_run /\ is_run' /\ call'.op = "run" /\ is_build]_vars

\* A run recorded a failure of the group, and a later run of the same suite
\* took every step and failed nowhere.
C19_Witness ==
    /\ call.op = "run"
    /\ is_run
    /\ errors = <<ErrorRecord(Error("group", "other"))>>
    /\ Fails(events) = {}
    /\ Ranks(events) = 1..10
    /\ raised = NoError

====
